---- MODULE Spec2Model ----
(***************************************************************************)
(* The indexing engine of chain-indexer (src/src/indexer.ts, createIndexer):*)
(* the state machine initial/running/stopped, the poll tick with its        *)
(* suspension points, subscribeToContract, stop, watch and indexToBlock.    *)
(*                                                                          *)
(* JavaScript runs one task at a time: a tick runs without interruption     *)
(* from one await to the next.  A tick's position is its pc; a pc in        *)
(* Suspended is an await on an RPC call, a store call or a user handler,    *)
(* where other tasks may run; every other pc is a position inside           *)
(* synchronous code, and while some tick is there nothing else moves.       *)
(*                                                                          *)
(* getSubscriptionEvents, processEvents, updateSubscription, the event      *)
(* queue and saveSubscriptionsToStore are imported by indexer.ts from       *)
(* modules whose source is not at hand; they are modelled from their        *)
(* description in spec.md (sections 4.Q, 4.F, 4.P, 6.3).                    *)
(***************************************************************************)
EXTENDS Integers, FiniteSets, Sequences, TLC

\* ------------------------------------------------------------------ bounds

\* Highest block of the modelled chain.
MaxBlock == 1
\* Most copies of one log the event queue holds at a time.
MaxDup == 2
\* Most pending timers that state.pollTimeout no longer refers to.
MaxOrphans == 1

\* ToBlock's sentinel "latest" (ToBlock = bigint | "latest").
Latest == -1

\* ------------------------------------------------------------- environment

\* Contract addresses; a subscription's id is its address, ids order by <.
Addrs == {1, 2}
\* The options callers of subscribeToContract choose from.
FromBlocks == {0, 2}
ToBlocks == {Latest, 0}
\* The targets callers of indexToBlock choose from.
Targets == {Latest} \cup (0..MaxBlock)

\* The logs of the chain: address, block number, log index.
Logs ==
  { [id |-> 1, b |-> 1, li |-> 0], [id |-> 1, b |-> 1, li |-> 1],
    [id |-> 2, b |-> 1, li |-> 0] }

NoEv == [id |-> 0, b |-> -1, li |-> 0]

\* A map without entries.
EmptyMap == [a \in {} |-> 0]

\* ----------------------------------------------------------------- orders

\* (block, logIndex) pairs, compared as the processor compares them.
PairLt(b1, l1, b2, l2) == b1 < b2 \/ (b1 = b2 /\ l1 < l2)
PairLe(b1, l1, b2, l2) == b1 < b2 \/ (b1 = b2 /\ l1 <= l2)

Min2(x, y) == IF x <= y THEN x ELSE y
Max2(x, y) == IF x >= y THEN x ELSE y

\* ------------------------------------------------------------------ state

VARIABLES
  state,          \* IndexerState: type, targetBlock, mode (which onError/onStop)
  timerRef,       \* the timer state.pollTimeout refers to is pending
  orphans,        \* pending timers that no state.pollTimeout refers to any more
  subscriptions,  \* Map<string, Subscription>, a function on the ids present
  eventQueue,     \* the event queue: copies held of each log
  tick,           \* the poll ticks in flight: pc and locals of each
  calls,          \* watch()/indexToBlock() calls suspended in init or getLastBlockNumber
  store,          \* the subscription store's content
  head,           \* the chain's last block number
  config,         \* Config: whether a subscriptionStore is configured
  obs,            \* what has been observed from outside: signals, completion, dispatches
  cache,          \* config.cache: whether there is one, and its contract-read entries
  reads           \* the readContract invocations in flight: position and locals

vars == <<state, timerRef, orphans, subscriptions, eventQueue, tick, calls, store,
          head, config, obs, cache, reads>>

\* config.chain.pollingIntervalMs ?? 1000 (line 115).
eventPollDelayMs == 1000

\* A tick that has called setTimeout with no delay yet.
NoDelay == -1

Initial == [type |-> "initial", targetBlock |-> Latest, mode |-> "none"]
Stopped == [type |-> "stopped", targetBlock |-> Latest, mode |-> "none"]
Running(target, mode) == [type |-> "running", targetBlock |-> target, mode |-> mode]

\* A tick's positions.  Suspended: the awaits of poll.
Suspended == {"getLast", "fetch", "handler", "save1", "save2"}
Internal == {"plan", "fetched", "drain", "ret", "catch", "escaped", "end"}

IdleTick ==
  [pc |-> "idle", targetBlock |-> -1, ids |-> {}, plan |-> {}, cur |-> NoEv,
   hasNew |-> FALSE, saving |-> EmptyMap, progress |-> << >>, delay |-> NoDelay]

NoCall == [kind |-> "none", at |-> "none", target |-> Latest]

\* The slots of the ticks and of the API calls in flight.
Ticks == DOMAIN tick
CallSlots == DOMAIN calls

\* Without a subscription store poll does not await a save
\* (if (config.subscriptionStore) ...) and init() awaits nothing.
TickInternal(t) ==
  \/ tick[t].pc \in Internal
  \/ tick[t].pc \in {"save1", "save2"} /\ ~config.store
CallInternal(c) == calls[c].at = "init" /\ ~config.store

\* No tick and no call is inside synchronous code: another task may run.
Quiet ==
  /\ \A t \in Ticks : ~TickInternal(t)
  /\ \A c \in CallSlots : ~CallInternal(c)

\* ---------------------------------------------------------- subscriptions

\* subscribeToContract's Subscription literal (indexedToBlock given or not).
NewSubscription(fromBlock, toBlock, indexedGiven, indexedToBlock) ==
  [fromBlock |-> fromBlock,
   toBlock |-> toBlock,
   indexedToBlock |-> IF indexedGiven THEN indexedToBlock ELSE fromBlock - 1,
   fetchedToBlock |-> -1,
   indexedToLogIndex |-> 0]

\* subscriptions.set(id, subscription): insert, or overwrite the entry of that id.
MapSet(m, id, s) ==
  [a \in DOMAIN m \cup {id} |-> IF a = id THEN s ELSE m[a]]

\* subscribeToContract(options) applied to the map m.
subscribeToContract(m, o) ==
  MapSet(m, o.address, NewSubscription(o.fromBlock, o.toBlock, FALSE, 0))

\* The options of the calls made by handlers and by external callers.
SubscribeOptions ==
  { o \in [address : Addrs, fromBlock : FromBlocks, toBlock : ToBlocks] :
      o.toBlock = Latest \/ o.fromBlock <= o.toBlock }

\* updateSubscription(subscriptions, id, {fetchedToBlock}) for every id of ids.
SetFetched(m, ids, b) ==
  [a \in DOMAIN m |->
     IF a \in ids THEN [m[a] EXCEPT !.fetchedToBlock = b] ELSE m[a]]

\* updateSubscription(subscriptions, id, {indexedToBlock, indexedToLogIndex})
\* for every id of ids.
SetIndexed(m, ids, b, li) ==
  [a \in DOMAIN m |->
     IF a \in ids
       THEN [m[a] EXCEPT !.indexedToBlock = b, !.indexedToLogIndex = li]
       ELSE m[a]]

\* ------------------------------------------------------------ event queue

Held(q) == { e \in Logs : q[e] > 0 }

\* The queue's order: block, then log index, then subscription id.
EvLe(e1, e2) ==
  \/ PairLt(e1.b, e1.li, e2.b, e2.li)
  \/ (e1.b = e2.b /\ e1.li = e2.li /\ e1.id <= e2.id)

\* A peek() that breaks a tie of (block, log index) by descending id.
PeekTieByDescendingId(q) ==
  CHOOSE e \in Held(q) :
    \A o \in Held(q) :
      \/ PairLt(e.b, e.li, o.b, o.li)
      \/ (e.b = o.b /\ e.li = o.li /\ e.id >= o.id)

\* peek(): the smallest event held.
Peek(q) == CHOOSE e \in Held(q) : \A o \in Held(q) : EvLe(e, o)

\* take(): the queue without one copy of e.
Take(q, e) == [q EXCEPT ![e] = @ - 1]

\* queue(event) for every event of es.
QueueAll(q, es) == [e \in Logs |-> IF e \in es THEN q[e] + 1 ELSE q[e]]

\* ---------------------------------------------------------- fetch planner

\* min(targetBlock, toBlock), toBlock being a height or "latest".
PlanTo(s, targetBlock) ==
  IF s.toBlock = Latest THEN targetBlock ELSE Min2(targetBlock, s.toBlock)

\* getSubscriptionEvents' plan: for each subscription whose fetchedToBlock is
\* below min(targetBlock, toBlock), the range [f, t] with
\* f = max(fromBlock, fetchedToBlock + 1), t = min(targetBlock, toBlock),
\* skipped when f > t.
PlanOf(m, targetBlock) ==
  { [id |-> a,
     f |-> Max2(m[a].fromBlock, m[a].fetchedToBlock + 1),
     t |-> PlanTo(m[a], targetBlock)] :
      a \in { x \in DOMAIN m :
                /\ m[x].fetchedToBlock < PlanTo(m[x], targetBlock)
                /\ Max2(m[x].fromBlock, m[x].fetchedToBlock + 1)
                     <= PlanTo(m[x], targetBlock) } }

\* getLogs for one planned range: the address's logs in [f, t].
RangeLogs(p) == { e \in Logs : e.id = p.id /\ p.f <= e.b /\ e.b <= p.t }

\* -------------------------------------------------------- event processor

\* Step 2 of the processor: the event is at or before the subscription's cursor.
AlreadyIndexed(s, e) == PairLe(e.b, e.li, s.indexedToBlock, s.indexedToLogIndex)

\* The processor's returned watermark: the least (indexedToBlock,
\* indexedToLogIndex) over all subscriptions of the map.
Watermark(m, targetBlock) ==
  IF DOMAIN m = {}
    THEN [b |-> targetBlock, li |-> 0]
    ELSE LET a == CHOOSE x \in DOMAIN m : \A y \in DOMAIN m :
                    PairLe(m[x].indexedToBlock, m[x].indexedToLogIndex,
                           m[y].indexedToBlock, m[y].indexedToLogIndex)
         IN [b |-> m[a].indexedToBlock, li |-> m[a].indexedToLogIndex]

\* --------------------------------------------------- subscription store

\* saveSubscriptionsToStore: the stored fields of every subscription
\* (fetchedToBlock is not stored).
StoredOf(m) ==
  [a \in DOMAIN m |->
     [fromBlock |-> m[a].fromBlock, toBlock |-> m[a].toBlock,
      indexedToBlock |-> m[a].indexedToBlock,
      indexedToLogIndex |-> m[a].indexedToLogIndex]]

\* init(): subscribeToContract for every stored subscription.  The call passes
\* indexedToBlock, fromBlock and toBlock; it also passes id and fromLogIndex,
\* which subscribeToContract does not read.
LoadStored(m, st) ==
  [a \in DOMAIN m \cup DOMAIN st |->
     IF a \in DOMAIN st
       THEN NewSubscription(st[a].fromBlock, st[a].toBlock, TRUE,
                            st[a].indexedToBlock)
       ELSE m[a]]

\* ------------------------------------------------------ timers, lifecycle

\* setTimeout(poll, delay) assigned to state.pollTimeout: the timer the field
\* referred to, if still pending, stays pending without a reference.
OrphansAfterSet == IF timerRef THEN Min2(orphans + 1, MaxOrphans) ELSE orphans

\* The state type that stop() leaves.
StopType == "stopped"

\* A stop() that leaves the timer of state.pollTimeout pending.
StopEffectsKeepTimer(o) ==
  /\ state' = [Stopped EXCEPT !.type = StopType]
  /\ UNCHANGED <<timerRef, orphans>>
  /\ obs' = [o EXCEPT !.completion =
                IF state.mode = "index" /\ @ = "pending" THEN "resolved" ELSE @]

\* stop() with the state running: clearTimeout(state.pollTimeout), emit
\* stopped, state.onStop() (indexToBlock: resolve), state = stopped.
\* o: the observer's record when stop() is entered.
StopEffects(o) ==
  /\ state' = [Stopped EXCEPT !.type = StopType]
  /\ timerRef' = FALSE
  /\ orphans' = orphans
  /\ obs' = [o EXCEPT !.completion =
                IF state.mode = "index" /\ @ = "pending" THEN "resolved" ELSE @]

\* scheduleNextPoll() as poll's last statement, with state unchanged.
ScheduleNextPoll ==
  IF state.type = "running"
    THEN timerRef' = TRUE /\ orphans' = OrphansAfterSet
    ELSE UNCHANGED <<timerRef, orphans>>

\* watch() / indexToBlock() assigning the running state and its first timer.
StartRun(targetBlock, mode) ==
  /\ state' = Running(targetBlock, mode)
  /\ timerRef' = TRUE
  /\ orphans' = OrphansAfterSet
  /\ obs' = [obs EXCEPT
       !.completion = IF mode = "index" THEN "pending" ELSE "none",
       !.nProgress = 0,
       !.stopCall = "none"]

SetTick(t, r) == tick' = [tick EXCEPT ![t] = r]

\* The delay that scheduleNextPoll(delay) hands to setTimeout (lines 145-149):
\* none when the state is not running.
DelayOf(delay) == IF state.type = "running" THEN delay ELSE NoDelay

\* ------------------------------------------------------------- poll tick

\* The lowest free slot takes the next tick.
FreeSlot(t) ==
  /\ tick[t].pc = "idle"
  /\ \A u \in Ticks : u < t => tick[u].pc # "idle"

\* poll() entered by a timer, up to its first await (lines 140-159).
PollBody(t) ==
  IF state.type # "running"
    THEN UNCHANGED tick
    ELSE IF state.targetBlock = Latest
      THEN SetTick(t, [IdleTick EXCEPT !.pc = "getLast"])
      ELSE SetTick(t, [IdleTick EXCEPT !.pc = "plan",
                                       !.targetBlock = state.targetBlock])

\* The timer of state.pollTimeout fires.
TimerFire(t) ==
  /\ Quiet /\ FreeSlot(t)
  /\ timerRef
  /\ timerRef' = FALSE
  /\ PollBody(t)
  /\ UNCHANGED <<state, orphans, subscriptions, eventQueue, calls, store, head, obs, config, cache, reads>>

\* A pending timer that is no longer state.pollTimeout fires.
OrphanFire(t) ==
  /\ Quiet /\ FreeSlot(t)
  /\ orphans > 0
  /\ orphans' = orphans - 1
  /\ PollBody(t)
  /\ UNCHANGED <<state, timerRef, subscriptions, eventQueue, calls, store, head, obs, config, cache, reads>>

\* rpcClient.getLastBlockNumber() returns (line 156).
GetLastReturn(t) ==
  /\ Quiet /\ tick[t].pc = "getLast"
  /\ SetTick(t, [tick[t] EXCEPT !.pc = "plan", !.targetBlock = head])
  /\ UNCHANGED <<state, timerRef, orphans, subscriptions, eventQueue, calls, store,
                 head, obs, config, cache, reads>>

\* rpcClient.getLastBlockNumber() throws.
GetLastThrow(t) ==
  /\ Quiet /\ tick[t].pc = "getLast"
  /\ SetTick(t, [tick[t] EXCEPT !.pc = "catch"])
  /\ UNCHANGED <<state, timerRef, orphans, subscriptions, eventQueue, calls, store,
                 head, obs, config, cache, reads>>

\* getSubscriptionEvents is called (line 161): it plans its fetches and
\* awaits them; with nothing to fetch it returns.
PlanFetch(t) ==
  /\ tick[t].pc = "plan"
  /\ LET plan == PlanOf(subscriptions, tick[t].targetBlock)
     IN SetTick(t, [tick[t] EXCEPT !.plan = plan,
                      !.pc = IF plan = {} THEN "fetched" ELSE "fetch"])
  /\ obs' = [obs EXCEPT !.unplanned = @ \ DOMAIN subscriptions]
  /\ UNCHANGED <<state, timerRef, orphans, subscriptions, eventQueue, calls, store,
                 head, config, cache, reads>>

\* One planned range is fetched and its logs are pushed (pushEvent, line 167).
FetchReturn(t, p) ==
  /\ Quiet /\ tick[t].pc = "fetch" /\ p \in tick[t].plan
  /\ \A e \in RangeLogs(p) : eventQueue[e] < MaxDup
  /\ eventQueue' = QueueAll(eventQueue, RangeLogs(p))
  /\ obs' = [obs EXCEPT !.pushed = @ \/ RangeLogs(p) # {},
                        !.queued = @ \cup RangeLogs(p)]
  /\ SetTick(t, [tick[t] EXCEPT !.plan = @ \ {p},
                   !.pc = IF tick[t].plan = {p} THEN "fetched" ELSE "fetch"])
  /\ UNCHANGED <<state, timerRef, orphans, subscriptions, calls, store, head, config, cache, reads>>

\* A fetch fails with an error other than range-too-wide: the planner throws.
FetchThrow(t) ==
  /\ Quiet /\ tick[t].pc = "fetch"
  /\ SetTick(t, [tick[t] EXCEPT !.pc = "catch", !.plan = {}])
  /\ UNCHANGED <<state, timerRef, orphans, subscriptions, eventQueue, calls, store,
                 head, obs, config, cache, reads>>

\* Lines 173-177: the ids of the map are taken and every one of them gets
\* fetchedToBlock = targetBlock; processEvents is called.
MarkFetched(t) ==
  /\ tick[t].pc = "fetched"
  /\ subscriptions' =
       SetFetched(subscriptions, DOMAIN subscriptions, tick[t].targetBlock)
  /\ SetTick(t, [tick[t] EXCEPT !.pc = "drain", !.ids = DOMAIN subscriptions])
  /\ UNCHANGED <<state, timerRef, orphans, eventQueue, calls, store, head, obs, config, cache, reads>>

\* The event the processor takes next.
NextEvent == Peek(eventQueue)

\* The processor's loop ends: nothing is queued at or below targetBlock.
Drained(t) ==
  IF Held(eventQueue) = {} THEN TRUE ELSE NextEvent.b > tick[t].targetBlock

\* processEvents' loop: the queue is empty or its smallest event is beyond
\* targetBlock: the processor returns without new subscriptions.
DrainEnd(t) ==
  /\ tick[t].pc = "drain"
  /\ Drained(t)
  /\ SetTick(t, [tick[t] EXCEPT !.pc = "ret", !.hasNew = FALSE])
  /\ UNCHANGED <<state, timerRef, orphans, subscriptions, eventQueue, calls, store,
                 head, obs, config, cache, reads>>

\* processEvents' loop: the smallest event is taken and dropped (its
\* subscription is absent) or skipped (already indexed).
DrainSkip(t) ==
  /\ tick[t].pc = "drain"
  /\ ~Drained(t)
  /\ IF NextEvent.id \in DOMAIN subscriptions
       THEN AlreadyIndexed(subscriptions[NextEvent.id], NextEvent)
       ELSE TRUE
  /\ eventQueue' = Take(eventQueue, NextEvent)
  /\ UNCHANGED <<state, timerRef, orphans, subscriptions, tick, calls, store, head, obs, config, cache, reads>>

\* processEvents' loop: the smallest event is taken and dispatched; the
\* processor awaits its handlers.
Dispatch(t) ==
  /\ tick[t].pc = "drain"
  /\ ~Drained(t)
  /\ NextEvent.id \in DOMAIN subscriptions
  /\ ~AlreadyIndexed(subscriptions[NextEvent.id], NextEvent)
  /\ eventQueue' = Take(eventQueue, NextEvent)
  /\ SetTick(t, [tick[t] EXCEPT !.pc = "handler", !.cur = NextEvent])
  /\ obs' = [obs EXCEPT !.lastDisp[NextEvent.id] = [b |-> NextEvent.b, li |-> NextEvent.li],
                        !.lastId = NextEvent.id,
                        !.pushed = FALSE,
                        !.dispatched = @ \cup {NextEvent}]
  /\ UNCHANGED <<state, timerRef, orphans, subscriptions, calls, store, head, config, cache, reads>>

\* The handlers of the dispatched event have returned; steps 5 and 6 of the
\* processor.  m: the map as the handlers left it; added: a handler's
\* subscribeToContract added a subscription that was not in the map.
AfterHandlers(t, m, added) ==
  /\ subscriptions' = SetIndexed(m, {tick[t].cur.id}, tick[t].cur.b, tick[t].cur.li)
  /\ SetTick(t, [tick[t] EXCEPT !.cur = NoEv, !.hasNew = added,
                                !.pc = IF added THEN "ret" ELSE "drain"])
  /\ obs' = [obs EXCEPT !.handled[tick[t].cur.id] = [b |-> tick[t].cur.b, li |-> tick[t].cur.li],
                        !.unplanned = @ \cup (DOMAIN m \ DOMAIN subscriptions)]
  /\ UNCHANGED <<state, timerRef, orphans, eventQueue, calls, store, head, config, cache, reads>>

\* The handlers return without having subscribed.
HandlerReturn(t) ==
  /\ Quiet /\ tick[t].pc = "handler"
  /\ AfterHandlers(t, subscriptions, FALSE)

\* The handlers return, one of them having called subscribeToContract(o).
HandlerSubscribe(t, o) ==
  /\ Quiet /\ tick[t].pc = "handler"
  /\ AfterHandlers(t, subscribeToContract(subscriptions, o),
                   o.address \notin DOMAIN subscriptions)

\* A handler throws: the error leaves processEvents.
HandlerThrow(t) ==
  /\ Quiet /\ tick[t].pc = "handler"
  /\ SetTick(t, [tick[t] EXCEPT !.pc = "catch", !.cur = NoEv])
  /\ UNCHANGED <<state, timerRef, orphans, subscriptions, eventQueue, calls, store,
                 head, obs, config, cache, reads>>

\* The ids whose cursors poll sets after processEvents (lines 193-198, 211-216).
CursorIds(t) == tick[t].ids

\* processEvents has returned with new subscriptions (lines 193-206): the ids
\* get the returned watermark and the subscriptions are saved.
ReturnNew(t) ==
  /\ tick[t].pc = "ret" /\ tick[t].hasNew
  /\ LET wm == Watermark(subscriptions, tick[t].targetBlock)
         m == SetIndexed(subscriptions, CursorIds(t), wm.b, wm.li)
     IN /\ subscriptions' = m
        /\ SetTick(t, [tick[t] EXCEPT !.pc = "save1", !.saving = StoredOf(m)])
  /\ UNCHANGED <<state, timerRef, orphans, eventQueue, calls, store, head, obs, config, cache, reads>>

\* processEvents has returned without new subscriptions (lines 193-229): the
\* ids get the watermark, then (targetBlock, 0); progress is emitted with
\* currentBlock the indexedToBlock that processEvents returned (line 220) and
\* the subscriptions are saved.
ReturnDone(t) ==
  /\ tick[t].pc = "ret" /\ ~tick[t].hasNew
  /\ LET wm == Watermark(subscriptions, tick[t].targetBlock)
         m0 == SetIndexed(subscriptions, CursorIds(t), wm.b, wm.li)
         m == SetIndexed(m0, CursorIds(t), tick[t].targetBlock, 0)
     IN /\ subscriptions' = m
        /\ SetTick(t, [tick[t] EXCEPT
                         !.pc = "save2", !.saving = StoredOf(m),
                         !.progress = Append(@, [currentBlock |-> wm.b,
                                                 targetBlock |-> tick[t].targetBlock])])
  /\ obs' = [obs EXCEPT !.nProgress = Min2(@ + 1, 2)]
  /\ UNCHANGED <<state, timerRef, orphans, eventQueue, calls, store, head, config, cache, reads>>

\* saveSubscriptionsToStore returns after new subscriptions (lines 202-208):
\* scheduleNextPoll(0), return.
SaveNewReturn(t) ==
  /\ tick[t].pc = "save1"
  /\ config.store => Quiet
  /\ store' = IF config.store THEN tick[t].saving ELSE store
  /\ ScheduleNextPoll
  /\ SetTick(t, [tick[t] EXCEPT !.pc = "end", !.saving = EmptyMap,
                                !.delay = DelayOf(0)])
  /\ UNCHANGED <<state, subscriptions, eventQueue, calls, head, obs, config, cache, reads>>

\* A line 232 that asks for a tick target beyond the state's.
ReachedBeyondTarget(t) ==
  /\ state.type = "running"
  /\ state.targetBlock # Latest
  /\ tick[t].targetBlock > state.targetBlock

\* Line 232: the final target block is reached.
ReachedTarget(t) ==
  /\ state.type = "running"
  /\ state.targetBlock # Latest
  /\ tick[t].targetBlock = state.targetBlock

\* saveSubscriptionsToStore returns at the target (lines 228-235): stop(), return.
SaveDoneStop(t) ==
  /\ tick[t].pc = "save2"
  /\ config.store => Quiet
  /\ ReachedTarget(t)
  /\ store' = IF config.store THEN tick[t].saving ELSE store
  /\ StopEffects(obs)
  /\ SetTick(t, [tick[t] EXCEPT !.pc = "end", !.saving = EmptyMap])
  /\ UNCHANGED <<subscriptions, eventQueue, calls, head, config, cache, reads>>

\* saveSubscriptionsToStore returns short of the target (lines 228-241):
\* scheduleNextPoll().
SaveDoneNext(t) ==
  /\ tick[t].pc = "save2"
  /\ config.store => Quiet
  /\ ~ReachedTarget(t)
  /\ store' = IF config.store THEN tick[t].saving ELSE store
  /\ ScheduleNextPoll
  /\ SetTick(t, [tick[t] EXCEPT !.pc = "end", !.saving = EmptyMap,
                                !.delay = DelayOf(eventPollDelayMs)])
  /\ UNCHANGED <<state, subscriptions, eventQueue, calls, head, obs, config, cache, reads>>

\* saveSubscriptionsToStore throws.
SaveThrow(t) ==
  /\ Quiet /\ config.store
  /\ tick[t].pc \in {"save1", "save2"}
  /\ SetTick(t, [tick[t] EXCEPT !.pc = "catch", !.saving = EmptyMap])
  /\ UNCHANGED <<state, timerRef, orphans, subscriptions, eventQueue, calls, store,
                 head, obs, config, cache, reads>>

\* catch (err) { state.onError(err) } with watch's callback: the error signal;
\* then scheduleNextPoll() (lines 237-241).
CatchWatch(t) ==
  /\ tick[t].pc = "catch"
  /\ state.type = "running" /\ state.mode = "watch"
  /\ ScheduleNextPoll
  /\ SetTick(t, [tick[t] EXCEPT !.pc = "end", !.delay = DelayOf(eventPollDelayMs)])
  /\ UNCHANGED <<state, subscriptions, eventQueue, calls, store, head, config, cache, reads, obs>>

\* catch (err) { state.onError(err) } with indexToBlock's callback:
\* reject(error), stop(); scheduleNextPoll() then finds the state stopped.
CatchIndex(t) ==
  /\ tick[t].pc = "catch"
  /\ state.type = "running" /\ state.mode = "index"
  /\ StopEffects([obs EXCEPT !.completion = IF @ = "pending" THEN "rejected" ELSE @])
  /\ SetTick(t, [tick[t] EXCEPT !.pc = "end"])
  /\ UNCHANGED <<subscriptions, eventQueue, calls, store, head, config, cache, reads>>

\* catch (err) { state.onError(err) } with the state stopped: a stopped state
\* has no onError, the call throws a TypeError out of poll and err is reported
\* to nobody; scheduleNextPoll() is not reached.
CatchStopped(t) ==
  /\ tick[t].pc = "catch"
  /\ state.type # "running"
  /\ SetTick(t, [tick[t] EXCEPT !.pc = "escaped"])
  /\ UNCHANGED <<state, timerRef, orphans, subscriptions, eventQueue, calls, store,
                 head, config, cache, reads, obs>>

\* poll returns.
TickEnd(t) ==
  /\ tick[t].pc \in {"end", "escaped"}
  /\ SetTick(t, IdleTick)
  /\ UNCHANGED <<state, timerRef, orphans, subscriptions, eventQueue, calls, store,
                 head, obs, config, cache, reads>>

\* ------------------------------------------------------------ public API

FreeCall(c) ==
  /\ calls[c].kind = "none"
  /\ \A d \in CallSlots : d < c => calls[d].kind # "none"

SetCall(c, r) == calls' = [calls EXCEPT ![c] = r]

\* watch() with the state initial: init() awaits the store (lines 392-393).
WatchInitial(c) ==
  /\ Quiet /\ FreeCall(c)
  /\ state.type = "initial"
  /\ SetCall(c, [kind |-> "watch", at |-> "init", target |-> Latest])
  /\ UNCHANGED <<state, timerRef, orphans, subscriptions, eventQueue, tick, store,
                 head, obs, config, cache, reads>>

\* watch() with the state stopped: no init; the state becomes running with
\* target latest and the first poll is scheduled (lines 393-414).
WatchStopped ==
  /\ Quiet
  /\ state.type = "stopped"
  /\ StartRun(Latest, "watch")
  /\ UNCHANGED <<subscriptions, eventQueue, tick, calls, store, head, config, cache, reads>>

\* watch() with the state running: "Indexer is already running", reported by
\* the error signal (lines 397-399, 416-418).
WatchRunning ==
  /\ Quiet
  /\ state.type = "running"
  /\ UNCHANGED vars

\* indexToBlock(target) with the state initial: await init() (lines 422-424).
IndexInitial(c, target) ==
  /\ Quiet /\ FreeCall(c)
  /\ state.type = "initial"
  /\ SetCall(c, [kind |-> "index", at |-> "init", target |-> target])
  /\ UNCHANGED <<state, timerRef, orphans, subscriptions, eventQueue, tick, store,
                 head, obs, config, cache, reads>>

\* indexToBlock("latest") with the state stopped: await getLastBlockNumber()
\* (lines 432-433).
IndexStoppedLatest(c) ==
  /\ Quiet /\ FreeCall(c)
  /\ state.type = "stopped"
  /\ SetCall(c, [kind |-> "index", at |-> "getLast", target |-> Latest])
  /\ UNCHANGED <<state, timerRef, orphans, subscriptions, eventQueue, tick, store,
                 head, obs, config, cache, reads>>

\* indexToBlock(N) with the state stopped: the state becomes running with
\* target N and the first poll is scheduled (lines 435-453).
IndexStopped(target) ==
  /\ Quiet
  /\ state.type = "stopped"
  /\ target # Latest
  /\ StartRun(target, "index")
  /\ UNCHANGED <<subscriptions, eventQueue, tick, calls, store, head, config, cache, reads>>

\* indexToBlock with the state running: "Indexer is already running" rejects
\* the call's own promise (lines 426-428).
IndexRunning ==
  /\ Quiet
  /\ state.type = "running"
  /\ UNCHANGED vars

\* init() returns: the stored subscriptions are subscribed (lines 282-294);
\* the call goes on in the same task.
InitReturn(c) ==
  /\ calls[c].at = "init"
  /\ config.store => Quiet
  /\ subscriptions' =
       IF config.store THEN LoadStored(subscriptions, store) ELSE subscriptions
  /\ IF state.type = "running"
       THEN /\ SetCall(c, NoCall)
            /\ UNCHANGED <<state, timerRef, orphans, obs>>
       ELSE IF calls[c].kind = "index" /\ calls[c].target = Latest
         THEN /\ SetCall(c, [calls[c] EXCEPT !.at = "getLast"])
              /\ UNCHANGED <<state, timerRef, orphans, obs>>
         ELSE /\ SetCall(c, NoCall)
              /\ StartRun(calls[c].target, calls[c].kind)
  /\ UNCHANGED <<eventQueue, tick, store, head, config, cache, reads>>

\* init() throws (the store's all() fails): watch emits error, indexToBlock
\* rejects the call's own promise.
InitThrow(c) ==
  /\ Quiet /\ config.store
  /\ calls[c].at = "init"
  /\ SetCall(c, NoCall)
  /\ UNCHANGED <<state, timerRef, orphans, subscriptions, eventQueue, tick, store,
                 head, config, cache, reads, obs>>

\* indexToBlock("latest"): getLastBlockNumber() returns; the state becomes
\* running with that target, whatever it was (lines 433-453).
IndexGetLastReturn(c) ==
  /\ Quiet /\ calls[c].at = "getLast"
  /\ SetCall(c, NoCall)
  /\ StartRun(head, "index")
  /\ UNCHANGED <<subscriptions, eventQueue, tick, store, head, config, cache, reads>>

\* indexToBlock("latest"): getLastBlockNumber() throws.
IndexGetLastThrow(c) ==
  /\ Quiet /\ calls[c].at = "getLast"
  /\ SetCall(c, NoCall)
  /\ UNCHANGED <<state, timerRef, orphans, subscriptions, eventQueue, tick, store,
                 head, obs, config, cache, reads>>

\* A first check of stop() that throws only on a fresh engine.
NotStarted == state.type = "initial"

\* The first check of stop() (line 301).
NotRunning == state.type # "running"

\* stop() with the state running (lines 300-314).
Stop ==
  /\ Quiet
  /\ ~NotRunning
  /\ StopEffects([obs EXCEPT !.stopCall = "ok"])
  /\ UNCHANGED <<subscriptions, eventQueue, tick, calls, store, head, config, cache, reads>>

\* stop() with the state not running: "Indexer is not running" (lines
\* 301-303); nothing else of stop() is reached.
StopNotRunning ==
  /\ Quiet
  /\ NotRunning
  /\ obs' = [obs EXCEPT !.stopCall = "error"]
  /\ UNCHANGED <<state, timerRef, orphans, subscriptions, eventQueue, tick, calls,
                 store, head, config, cache, reads>>

\* subscribeToContract(o) called from outside the handlers.
Subscribe(o) ==
  /\ Quiet
  /\ subscriptions' = subscribeToContract(subscriptions, o)
  /\ UNCHANGED <<state, timerRef, orphans, eventQueue, tick, calls, store, head, obs, config, cache, reads>>

\* The chain grows by a block.
NewBlock ==
  /\ Quiet
  /\ head < MaxBlock
  /\ head' = head + 1
  /\ UNCHANGED <<state, timerRef, orphans, subscriptions, eventQueue, tick, calls,
                 store, obs, config, cache, reads>>

\* ----------------------------------------------------------- readContract

\* The (address, blockNumber, functionName, data) of the reads.
ReadKeys == {1, 2}

\* What rpcClient.readContract returns: data that decodeFunctionResult
\* decodes against the ABI ("ok"), or data it throws on ("bad", such as the
\* empty data of an address without code).
RpcResults == {"ok", "bad"}

\* decodeFunctionResult returns (lines 376-380).
Decodes(result) == result = "ok"

NoRead == [at |-> "none", key |-> 0, result |-> "none", wrote |-> FALSE]

ReadSlots == DOMAIN reads

FreeRead(r) ==
  /\ reads[r].at = "none"
  /\ \A q \in ReadSlots : q < r => reads[q].at # "none"

SetRead(r, v) == reads' = [reads EXCEPT ![r] = v]

\* The end of an invocation that holds a result: decodeFunctionResult
\* returns the value or throws.
Decoded(v) == [v EXCEPT !.at = IF Decodes(v.result) THEN "done" ELSE "failed"]

\* readContract(args) up to its first await (lines 328-357): an unknown
\* contract throws; with a cache the lookup is awaited, without one the RPC
\* call.
ReadCall(r, k, known) ==
  /\ Quiet /\ FreeRead(r)
  /\ SetRead(r, [NoRead EXCEPT
                   !.key = k,
                   !.at = IF ~known THEN "failed"
                          ELSE IF cache.configured THEN "cacheGet" ELSE "rpc"])
  /\ UNCHANGED <<state, timerRef, orphans, subscriptions, eventQueue, tick, calls,
                 store, head, config, obs, cache>>

\* cache.getContractRead returns (lines 343-357): a hit is the result, which
\* is decoded; a miss goes on to the RPC call.
CacheGetReturn(r) ==
  /\ Quiet /\ reads[r].at = "cacheGet"
  /\ SetRead(r, IF cache.reads[reads[r].key] # "none"
                  THEN Decoded([reads[r] EXCEPT !.result = cache.reads[reads[r].key]])
                  ELSE [reads[r] EXCEPT !.at = "rpc"])
  /\ UNCHANGED <<state, timerRef, orphans, subscriptions, eventQueue, tick, calls,
                 store, head, config, obs, cache>>

\* cache.getContractRead throws.
CacheGetThrow(r) ==
  /\ Quiet /\ reads[r].at = "cacheGet"
  /\ SetRead(r, [reads[r] EXCEPT !.at = "failed"])
  /\ UNCHANGED <<state, timerRef, orphans, subscriptions, eventQueue, tick, calls,
                 store, head, config, obs, cache>>

\* rpcClient.readContract returns (lines 357-376): with a cache the insert is
\* awaited, without one the result is decoded.
RpcReadReturn(r, result) ==
  /\ Quiet /\ reads[r].at = "rpc"
  /\ SetRead(r, IF cache.configured
                  THEN [reads[r] EXCEPT !.result = result, !.at = "insert"]
                  ELSE Decoded([reads[r] EXCEPT !.result = result]))
  /\ UNCHANGED <<state, timerRef, orphans, subscriptions, eventQueue, tick, calls,
                 store, head, config, obs, cache>>

\* rpcClient.readContract throws.
RpcReadThrow(r) ==
  /\ Quiet /\ reads[r].at = "rpc"
  /\ SetRead(r, [reads[r] EXCEPT !.at = "failed"])
  /\ UNCHANGED <<state, timerRef, orphans, subscriptions, eventQueue, tick, calls,
                 store, head, config, obs, cache>>

\* cache.insertContractRead returns (lines 365-380): the entry is written,
\* then the result is decoded.
CacheInsertReturn(r) ==
  /\ Quiet /\ reads[r].at = "insert"
  /\ cache' = [cache EXCEPT !.reads[reads[r].key] = reads[r].result]
  /\ SetRead(r, Decoded([reads[r] EXCEPT !.wrote = TRUE]))
  /\ UNCHANGED <<state, timerRef, orphans, subscriptions, eventQueue, tick, calls,
                 store, head, config, obs>>

\* cache.insertContractRead throws, having written nothing.
CacheInsertThrow(r) ==
  /\ Quiet /\ reads[r].at = "insert"
  /\ SetRead(r, [reads[r] EXCEPT !.at = "failed"])
  /\ UNCHANGED <<state, timerRef, orphans, subscriptions, eventQueue, tick, calls,
                 store, head, config, obs, cache>>

\* The caller has taken the invocation's value or error.
ReadSettled(r) ==
  /\ Quiet /\ reads[r].at \in {"done", "failed"}
  /\ SetRead(r, NoRead)
  /\ UNCHANGED <<state, timerRef, orphans, subscriptions, eventQueue, tick, calls,
                 store, head, config, obs, cache>>

\* ---------------------------------------------------------- specification

NoDisp == [b |-> -1, li |-> -1]

\* The cache and the readContract invocations after createIndexer(config):
\* a cache or none (config.cache ?? null), nothing cached, no invocation.
InitReads(nReads, cacheOptions) ==
  /\ cache \in { [configured |-> b, reads |-> [k \in ReadKeys |-> "none"]] :
                  b \in cacheOptions }
  /\ reads = [r \in 1..nReads |-> NoRead]

\* The state after createIndexer(config), with room for nTicks ticks and
\* nCalls suspended API calls at a time.
InitEngine(hasStore, nTicks, nCalls) ==
  /\ state = Initial
  /\ timerRef = FALSE
  /\ orphans = 0
  /\ subscriptions = EmptyMap
  /\ eventQueue = [e \in Logs |-> 0]
  /\ tick = [t \in 1..nTicks |-> IdleTick]
  /\ calls = [c \in 1..nCalls |-> NoCall]
  /\ store = EmptyMap
  /\ head = 0
  /\ config = [store |-> hasStore]
  /\ obs = [completion |-> "none", nProgress |-> 0,
            lastDisp |-> [a \in Addrs |-> NoDisp], lastId |-> 0, pushed |-> FALSE,
            handled |-> [a \in Addrs |-> NoDisp], stopCall |-> "none",
            queued |-> {}, dispatched |-> {}, unplanned |-> {}]

\* createIndexer(config) without a cache and with room for one readContract.
InitWith(hasStore, nTicks, nCalls) ==
  /\ InitReads(1, {FALSE})
  /\ InitEngine(hasStore, nTicks, nCalls)

\* The subscribe options with every default: fromBlock 0, toBlock "latest".
Defaults(A) == { [address |-> a, fromBlock |-> 0, toBlock |-> Latest] : a \in A }

\* No subscription store, one tick and one suspended call at a time.
Init == InitWith(FALSE, 1, 1)

\* The engine's lifecycle: every API call in every order and every failure of
\* the RPC client and of the handlers, with one subscription.
Next ==
  \/ \E t \in Ticks : TimerFire(t)
  \/ \E t \in Ticks : OrphanFire(t)
  \/ \E t \in Ticks : GetLastReturn(t)
  \/ \E t \in Ticks : GetLastThrow(t)
  \/ \E t \in Ticks : PlanFetch(t)
  \/ \E t \in Ticks : \E p \in tick[t].plan : FetchReturn(t, p)
  \/ \E t \in Ticks : FetchThrow(t)
  \/ \E t \in Ticks : MarkFetched(t)
  \/ \E t \in Ticks : DrainEnd(t)
  \/ \E t \in Ticks : DrainSkip(t)
  \/ \E t \in Ticks : Dispatch(t)
  \/ \E t \in Ticks : HandlerReturn(t)
  \/ \E t \in Ticks : HandlerThrow(t)
  \/ \E t \in Ticks : ReturnDone(t)
  \/ \E t \in Ticks : SaveDoneStop(t)
  \/ \E t \in Ticks : SaveDoneNext(t)
  \/ \E t \in Ticks : CatchWatch(t)
  \/ \E t \in Ticks : CatchIndex(t)
  \/ \E t \in Ticks : CatchStopped(t)
  \/ \E t \in Ticks : TickEnd(t)
  \/ \E c \in CallSlots : WatchInitial(c)
  \/ WatchStopped
  \/ WatchRunning
  \/ \E c \in CallSlots, n \in Targets : IndexInitial(c, n)
  \/ \E c \in CallSlots : IndexStoppedLatest(c)
  \/ \E n \in Targets : IndexStopped(n)
  \/ IndexRunning
  \/ \E c \in CallSlots : InitReturn(c)
  \/ \E c \in CallSlots : IndexGetLastReturn(c)
  \/ \E c \in CallSlots : IndexGetLastThrow(c)
  \/ Stop
  \/ StopNotRunning
  \/ \E o \in Defaults({1}) : Subscribe(o)
  \/ NewBlock

Spec == Init /\ [][Next]_vars

\* Dispatch order: watch mode, both addresses subscribed from outside and by
\* handlers, with the defaults; every failure of the RPC client and of the
\* handlers.
NextOrder ==
  \/ \E t \in Ticks : TimerFire(t)
  \/ \E t \in Ticks : GetLastReturn(t)
  \/ \E t \in Ticks : GetLastThrow(t)
  \/ \E t \in Ticks : PlanFetch(t)
  \/ \E t \in Ticks : \E p \in tick[t].plan : FetchReturn(t, p)
  \/ \E t \in Ticks : FetchThrow(t)
  \/ \E t \in Ticks : MarkFetched(t)
  \/ \E t \in Ticks : DrainEnd(t)
  \/ \E t \in Ticks : DrainSkip(t)
  \/ \E t \in Ticks : Dispatch(t)
  \/ \E t \in Ticks : HandlerReturn(t)
  \/ \E t \in Ticks : \E o \in Defaults(Addrs) : HandlerSubscribe(t, o)
  \/ \E t \in Ticks : HandlerThrow(t)
  \/ \E t \in Ticks : ReturnNew(t)
  \/ \E t \in Ticks : ReturnDone(t)
  \/ \E t \in Ticks : SaveNewReturn(t)
  \/ \E t \in Ticks : SaveDoneNext(t)
  \/ \E t \in Ticks : CatchWatch(t)
  \/ \E t \in Ticks : TickEnd(t)
  \/ \E c \in CallSlots : WatchInitial(c)
  \/ \E c \in CallSlots : InitReturn(c)
  \/ \E o \in Defaults(Addrs) : Subscribe(o)
  \/ NewBlock

SpecOrder == Init /\ [][NextOrder]_vars

\* Cursors: watch mode, every option of fromBlock and toBlock, address 1
\* subscribed from outside and address 2 by handlers; every failure of the RPC
\* client and of the handlers.
NextCursor ==
  \/ \E t \in Ticks : TimerFire(t)
  \/ \E t \in Ticks : GetLastReturn(t)
  \/ \E t \in Ticks : GetLastThrow(t)
  \/ \E t \in Ticks : PlanFetch(t)
  \/ \E t \in Ticks : \E p \in tick[t].plan : FetchReturn(t, p)
  \/ \E t \in Ticks : FetchThrow(t)
  \/ \E t \in Ticks : MarkFetched(t)
  \/ \E t \in Ticks : DrainEnd(t)
  \/ \E t \in Ticks : DrainSkip(t)
  \/ \E t \in Ticks : Dispatch(t)
  \/ \E t \in Ticks : HandlerReturn(t)
  \/ \E t \in Ticks : \E o \in { x \in SubscribeOptions : x.address = 2 } :
       HandlerSubscribe(t, o)
  \/ \E t \in Ticks : HandlerThrow(t)
  \/ \E t \in Ticks : ReturnNew(t)
  \/ \E t \in Ticks : ReturnDone(t)
  \/ \E t \in Ticks : SaveNewReturn(t)
  \/ \E t \in Ticks : SaveDoneNext(t)
  \/ \E t \in Ticks : CatchWatch(t)
  \/ \E t \in Ticks : TickEnd(t)
  \/ \E c \in CallSlots : WatchInitial(c)
  \/ \E c \in CallSlots : InitReturn(c)
  \/ \E o \in { x \in SubscribeOptions : x.address = 1 } : Subscribe(o)
  \/ NewBlock

SpecCursor == Init /\ [][NextCursor]_vars

\* subscribeToContract by a handler for address 2, from block 0 or from
\* beyond the chain's head.
HandlerOptions ==
  { [address |-> 2, fromBlock |-> f, toBlock |-> Latest] : f \in {0, MaxBlock + 2} }

\* A fresh indexer is built over the same subscription store (the process
\* was restarted): createIndexer's initial state, no timer, no tick, an empty
\* subscription map and an empty queue.  The observer keeps what was handled.
FreshIndexer ==
  /\ Quiet
  /\ \A t \in Ticks : tick[t].pc = "idle"
  /\ \A c \in CallSlots : calls[c].kind = "none"
  /\ state.type = "stopped"
  /\ state' = Initial
  /\ timerRef' = FALSE /\ orphans' = 0
  /\ subscriptions' = EmptyMap
  /\ eventQueue' = [e \in Logs |-> 0]
  /\ obs' = [obs EXCEPT !.completion = "none", !.nProgress = 0, !.pushed = FALSE,
                        !.stopCall = "none", !.unplanned = {}]
  /\ UNCHANGED <<tick, calls, store, head, config, cache, reads>>

\* With a subscription store: watch mode, the store's calls failing or not,
\* a handler subscribing, stop() and a fresh indexer over the same store.
NextStore ==
  \/ \E t \in Ticks : TimerFire(t)
  \/ \E t \in Ticks : GetLastReturn(t)
  \/ \E t \in Ticks : PlanFetch(t)
  \/ \E t \in Ticks : \E p \in tick[t].plan : FetchReturn(t, p)
  \/ \E t \in Ticks : MarkFetched(t)
  \/ \E t \in Ticks : DrainEnd(t)
  \/ \E t \in Ticks : DrainSkip(t)
  \/ \E t \in Ticks : Dispatch(t)
  \/ \E t \in Ticks : HandlerReturn(t)
  \/ \E t \in Ticks : \E o \in HandlerOptions : HandlerSubscribe(t, o)
  \/ \E t \in Ticks : ReturnNew(t)
  \/ \E t \in Ticks : ReturnDone(t)
  \/ \E t \in Ticks : SaveNewReturn(t)
  \/ \E t \in Ticks : SaveDoneNext(t)
  \/ \E t \in Ticks : SaveThrow(t)
  \/ \E t \in Ticks : CatchWatch(t)
  \/ \E t \in Ticks : CatchStopped(t)
  \/ \E t \in Ticks : TickEnd(t)
  \/ \E c \in CallSlots : WatchInitial(c)
  \/ \E c \in CallSlots : InitReturn(c)
  \/ \E c \in CallSlots : InitThrow(c)
  \/ \E o \in Defaults({1}) : Subscribe(o)
  \/ Stop
  \/ FreshIndexer
  \/ NewBlock

SpecStore == InitWith(TRUE, 1, 1) /\ [][NextStore]_vars

\* watch(), indexToBlock("latest") and stop() called at any suspension point
\* of two API calls and two ticks, over one subscription without logs.
NextOverlap ==
  \/ \E t \in Ticks : TimerFire(t)
  \/ \E t \in Ticks : OrphanFire(t)
  \/ \E t \in Ticks : GetLastReturn(t)
  \/ \E t \in Ticks : PlanFetch(t)
  \/ \E t \in Ticks : \E p \in tick[t].plan : FetchReturn(t, p)
  \/ \E t \in Ticks : MarkFetched(t)
  \/ \E t \in Ticks : DrainEnd(t)
  \/ \E t \in Ticks : ReturnDone(t)
  \/ \E t \in Ticks : SaveDoneStop(t)
  \/ \E t \in Ticks : SaveDoneNext(t)
  \/ \E t \in Ticks : TickEnd(t)
  \/ \E c \in CallSlots : WatchInitial(c)
  \/ WatchStopped
  \/ \E c \in CallSlots : IndexInitial(c, Latest)
  \/ \E c \in CallSlots : IndexStoppedLatest(c)
  \/ \E c \in CallSlots : InitReturn(c)
  \/ \E c \in CallSlots : IndexGetLastReturn(c)
  \/ Stop
  \/ \E o \in Defaults({1}) : Subscribe(o)

SpecOverlap == InitWith(FALSE, 2, 2) /\ [][NextOverlap]_vars

\* watch() restarted after stop() while a tick is in flight, with handlers
\* that subscribe a second address: two ticks share the map and the queue.
NextReplan ==
  \/ \E t \in Ticks : TimerFire(t)
  \/ \E t \in Ticks : GetLastReturn(t)
  \/ \E t \in Ticks : PlanFetch(t)
  \/ \E t \in Ticks : \E p \in tick[t].plan : FetchReturn(t, p)
  \/ \E t \in Ticks : MarkFetched(t)
  \/ \E t \in Ticks : DrainEnd(t)
  \/ \E t \in Ticks : DrainSkip(t)
  \/ \E t \in Ticks : Dispatch(t)
  \/ \E t \in Ticks : HandlerReturn(t)
  \/ \E t \in Ticks : \E o \in Defaults({2}) : HandlerSubscribe(t, o)
  \/ \E t \in Ticks : ReturnNew(t)
  \/ \E t \in Ticks : ReturnDone(t)
  \/ \E t \in Ticks : SaveNewReturn(t)
  \/ \E t \in Ticks : SaveDoneNext(t)
  \/ \E t \in Ticks : TickEnd(t)
  \/ \E c \in CallSlots : WatchInitial(c)
  \/ \E c \in CallSlots : InitReturn(c)
  \/ WatchStopped
  \/ Stop
  \/ \E o \in Defaults({1}) : Subscribe(o)
  \/ NewBlock

SpecReplan == InitWith(FALSE, 2, 1) /\ [][NextReplan]_vars

\* readContract with and without a cache: two invocations at a time, every
\* failure of the cache, of the RPC client and of the decoding.
NextRead ==
  \/ \E r \in ReadSlots : \E k \in ReadKeys : \E known \in BOOLEAN : ReadCall(r, k, known)
  \/ \E r \in ReadSlots : CacheGetReturn(r)
  \/ \E r \in ReadSlots : CacheGetThrow(r)
  \/ \E r \in ReadSlots : \E result \in RpcResults : RpcReadReturn(r, result)
  \/ \E r \in ReadSlots : RpcReadThrow(r)
  \/ \E r \in ReadSlots : CacheInsertReturn(r)
  \/ \E r \in ReadSlots : CacheInsertThrow(r)
  \/ \E r \in ReadSlots : ReadSettled(r)

\* createIndexer(config) with or without a cache, and two read slots.
InitRead ==
  /\ InitReads(2, BOOLEAN)
  /\ InitEngine(FALSE, 1, 1)

SpecRead == InitRead /\ [][NextRead]_vars

\* indexToBlock(N) on a fresh engine with no failing call: subscriptions made
\* from outside and by handlers, no stop() from outside.
NextIndex ==
  \/ \E t \in Ticks : TimerFire(t)
  \/ \E t \in Ticks : PlanFetch(t)
  \/ \E t \in Ticks : \E p \in tick[t].plan : FetchReturn(t, p)
  \/ \E t \in Ticks : MarkFetched(t)
  \/ \E t \in Ticks : DrainEnd(t)
  \/ \E t \in Ticks : DrainSkip(t)
  \/ \E t \in Ticks : Dispatch(t)
  \/ \E t \in Ticks : HandlerReturn(t)
  \/ \E t \in Ticks : \E o \in Defaults(Addrs) : HandlerSubscribe(t, o)
  \/ \E t \in Ticks : ReturnNew(t)
  \/ \E t \in Ticks : ReturnDone(t)
  \/ \E t \in Ticks : SaveNewReturn(t)
  \/ \E t \in Ticks : SaveDoneStop(t)
  \/ \E t \in Ticks : TickEnd(t)
  \/ \E c \in CallSlots : \E n \in 0..MaxBlock : IndexInitial(c, n)
  \/ \E c \in CallSlots : InitReturn(c)
  \/ \E o \in { x \in SubscribeOptions : x.address = 1 } : Subscribe(o)
  \/ NewBlock

\* What the engine does by itself once started: the timer fires, the RPC
\* client, the handlers and the store return, the synchronous code goes on.
TickStep ==
  \E t \in Ticks :
    \/ TimerFire(t)
    \/ PlanFetch(t)
    \/ \E p \in tick[t].plan : FetchReturn(t, p)
    \/ MarkFetched(t)
    \/ DrainEnd(t)
    \/ DrainSkip(t)
    \/ Dispatch(t)
    \/ HandlerReturn(t)
    \/ ReturnNew(t)
    \/ ReturnDone(t)
    \/ SaveNewReturn(t)
    \/ SaveDoneStop(t)
    \/ TickEnd(t)

CallStep == \E c \in CallSlots : InitReturn(c)

\* The timer fires and no call hangs: weak fairness of the engine's own
\* steps.  A handler that subscribes is not forced.
SpecIndex ==
  Init /\ [][NextIndex]_vars /\ WF_vars(TickStep) /\ WF_vars(CallStep)

\* ------------------------------------------------------------------ claims

\* The step in which tick t dispatches an event, and the event.
Dispatches(t) == tick[t].pc = "drain" /\ tick'[t].pc = "handler"
\* The step in which a timer starts tick t beyond poll's first check.
Starts(t) == tick[t].pc = "idle" /\ tick'[t].pc # "idle"
\* The tick has ended after resolving its targetBlock.
Ended(t) == tick[t].pc \in {"end", "escaped"} /\ tick[t].targetBlock >= 0

\* The event dispatched last, once there is one.
LastDispatched ==
  [id |-> obs.lastId, b |-> obs.lastDisp[obs.lastId].b,
   li |-> obs.lastDisp[obs.lastId].li]

\* C1: for every subscription id the (blockNumber, logIndex) of the events
\* dispatched for it are strictly increasing over the run: an event
\* dispatched for an id is beyond the event of that id whose handlers
\* returned last (a dispatch whose handler threw is left out of the
\* comparison, so that a retry of a failed event does not count).
C1_DispatchStrictlyIncreasingPerSubscription ==
  [][\A t \in Ticks :
       Dispatches(t) =>
         PairLt(obs.handled[tick'[t].cur.id].b, obs.handled[tick'[t].cur.id].li,
                tick'[t].cur.b, tick'[t].cur.li)]_vars

C3_CursorsOrderedAtTickEnd ==
  \A t \in Ticks :
    Ended(t) =>
      \A a \in DOMAIN subscriptions :
        /\ subscriptions[a].indexedToBlock <= subscriptions[a].fetchedToBlock
        /\ subscriptions[a].fetchedToBlock <= tick[t].targetBlock

\* C4: when a tick that resolved its targetBlock ends, every subscription
\* with a concrete toBlock has indexedToBlock <= toBlock.
C4_IndexedWithinToBlockAtTickEnd ==
  \A t \in Ticks :
    Ended(t) =>
      \A a \in DOMAIN subscriptions :
        subscriptions[a].toBlock # Latest =>
          subscriptions[a].indexedToBlock <= subscriptions[a].toBlock

\* C5: in every state every subscription of the map has
\* fromBlock <= indexedToBlock + 1.
C5_FromBlockWithinIndexed ==
  \A a \in DOMAIN subscriptions :
    subscriptions[a].fromBlock <= subscriptions[a].indexedToBlock + 1

\* C6: the state only moves initial -> running -> stopped: from stopped it
\* stays stopped whatever is called, it never returns to initial, and a poll
\* tick gets beyond poll's first check only while the state is running.
C6_NoRestartAfterStopped ==
  [][/\ state.type = "stopped" => state'.type = "stopped"
     /\ state.type = "running" => state'.type \in {"running", "stopped"}
     /\ state.type = "initial" => state'.type \in {"initial", "running"}
     /\ \A t \in Ticks : Starts(t) => state.type = "running"]_vars

\* C7: the completion of indexToBlock resolves only in the step in which a
\* tick that has reached the state's target stops the engine, every
\* subscription being indexed through that target; it does not resolve when
\* the engine is stopped otherwise.
C7_ResolvesOnlyAfterCatchUp ==
  [][(obs.completion = "pending" /\ obs'.completion = "resolved") =>
       \E t \in Ticks :
         /\ tick[t].pc = "save2" /\ tick'[t].pc = "end"
         /\ tick[t].targetBlock = state.targetBlock
         /\ \A a \in DOMAIN subscriptions :
              subscriptions[a].indexedToBlock >= tick[t].targetBlock]_vars

\* C9: the catch block of every tick delivers the error through the running
\* state's error callback and poll goes on to its last statement, which
\* schedules the next tick when the state is still running; no error leaves
\* poll.
C9_TickErrorsCaughtAndReported ==
  [][\A t \in Ticks :
       tick[t].pc = "catch" =>
         /\ tick'[t].pc = "end"
         /\ state'.type = "running" => timerRef']_vars

\* C8: indexToBlock(N) with a concrete N, no call failing and the engine's
\* own steps fair: the engine emits progress exactly once before it stops,
\* the stop resolves the completion, and from running the engine gets to
\* stopped, with the completion resolved and one progress signal, for good.
C8_IndexToBlockCompletes ==
  /\ [][(state.type = "running" /\ state'.type = "stopped") =>
         (obs.nProgress = 1 /\ obs'.nProgress = 1 /\ obs'.completion = "resolved")]_vars
  /\ (state.type = "running") ~>
       [](state.type = "stopped" /\ obs.completion = "resolved" /\ obs.nProgress = 1)

\* C8's case: the run has ended resolved after one progress signal, a
\* handler having added subscription 2 on the way and events of both
\* subscriptions having been handled.
C8_CompletedAfterReplan ==
  /\ state.type = "stopped" /\ obs.completion = "resolved" /\ obs.nProgress = 1
  /\ DOMAIN subscriptions = {1, 2}
  /\ obs.handled[1] # NoDisp /\ obs.handled[2] # NoDisp

\* C10: with the state running by indexToBlock, the catch block of a tick
\* rejects the completion, stops the engine (state stopped, the scheduled
\* timer cleared) and poll ends without scheduling; and a tick gets beyond
\* poll's first check only while the state is running.
C10_IndexErrorRejectsAndStops ==
  [][/\ \A t \in Ticks :
          (tick[t].pc = "catch" /\ state.type = "running" /\ state.mode = "index") =>
            /\ obs.completion = "pending" /\ obs'.completion = "rejected"
            /\ state'.type = "stopped"
            /\ ~timerRef'
            /\ tick'[t].pc = "end"
     /\ \A t \in Ticks : Starts(t) => state.type = "running"]_vars

\* C10's case: a tick's error has rejected the completion and stopped the
\* engine, and the tick is at its end.
C10_RejectedAndStopped ==
  /\ obs.completion = "rejected" /\ state.type = "stopped" /\ ~timerRef
  /\ \E t \in Ticks : tick[t].pc = "end" /\ tick[t].targetBlock >= 0

\* C11: a call of stop() with the state initial or stopped fails and changes
\* nothing: the state, the timers, the completion, the ticks and the
\* subscriptions are as before (no stopped signal, no stop callback, nothing
\* cancelled); a call with the state running succeeds.
C11_StopWhenNotRunningFails ==
  [][(obs'.stopCall # obs.stopCall /\ obs'.stopCall # "none") =>
       IF state.type = "running"
         THEN obs'.stopCall = "ok" /\ state'.type = "stopped"
         ELSE /\ obs'.stopCall = "error"
              /\ state' = state /\ timerRef' = timerRef /\ orphans' = orphans
              /\ obs'.completion = obs.completion
              /\ tick' = tick /\ subscriptions' = subscriptions]_vars

\* C11's case: stop() has failed after an indexToBlock run reached its
\* target and resolved.
C11_StopFailedAfterTargetReached ==
  /\ obs.stopCall = "error"
  /\ state.type = "stopped" /\ obs.completion = "resolved" /\ obs.nProgress = 1

\* C12: a tick emits progress at most once and after its last dispatch: a
\* tick that is dispatching, one that has found new subscriptions and one
\* that is in or past its catch block has emitted no progress.
C12_ProgressOnceAfterDispatchNoneOnError ==
  \A t \in Ticks :
    /\ Len(tick[t].progress) <= 1
    /\ tick[t].pc \in {"drain", "handler"} => tick[t].progress = << >>
    /\ tick[t].hasNew => tick[t].progress = << >>
    /\ tick[t].pc \in {"catch", "escaped"} => tick[t].progress = << >>

\* C13: the progress signal of a tick carries currentBlock equal to the
\* tick's targetBlock, which is the indexedToBlock the tick has given to
\* every subscription it knows.
C13_ProgressCarriesTargetBlock ==
  \A t \in Ticks :
    \A i \in 1..Len(tick[t].progress) :
      /\ tick[t].progress[i].currentBlock = tick[t].targetBlock
      /\ tick[t].pc = "save2" =>
           \A a \in tick[t].ids \cap DOMAIN subscriptions :
             tick[t].progress[i].currentBlock = subscriptions[a].indexedToBlock

\* C14: an invocation of readContract that has failed (in the cache lookup,
\* the RPC call, the cache insert or the decoding) has written no entry to
\* the cache.
C14_FailedReadWritesNoCacheEntry ==
  \A r \in ReadSlots : reads[r].at = "failed" => ~reads[r].wrote

\* The step is an external subscribeToContract call: the subscription map
\* changes while no tick and no API call moves.
ExternalSubscribe ==
  tick' = tick /\ calls' = calls /\ state' = state /\ subscriptions' # subscriptions

\* C15: subscribeToContract called again with the address and the options of
\* an existing subscription leaves that subscription's cursors
\* (fetchedToBlock, indexedToBlock, indexedToLogIndex) unchanged.
C15_ResubscribeKeepsCursors ==
  [][ExternalSubscribe =>
       \A a \in DOMAIN subscriptions :
         (/\ subscriptions'[a].fromBlock = subscriptions[a].fromBlock
          /\ subscriptions'[a].toBlock = subscriptions[a].toBlock)
           => subscriptions'[a] = subscriptions[a]]_vars

\* The step in which watch() goes on from its awaited init() to running.
InitReturned == state.type = "initial" /\ state'.type = "running"

\* C16: when init() has loaded the subscriptions of the store, every loaded
\* subscription has the stored fromBlock, toBlock, indexedToBlock and
\* indexedToLogIndex, and fetchedToBlock = -1.
C16_LoadedSubscriptionsEqualStored ==
  [][(InitReturned /\ config.store) =>
       \A a \in DOMAIN store :
         /\ a \in DOMAIN subscriptions'
         /\ StoredOf(subscriptions')[a] = store[a]
         /\ subscriptions'[a].fetchedToBlock = -1]_vars

\* The poll ticks in flight and the poll timers pending.
TicksInFlight == { t \in Ticks : tick[t].pc # "idle" }
TimersPending == (IF timerRef THEN 1 ELSE 0) + orphans

\* C17: at most one poll tick is in flight and at most one poll timer is
\* pending at any time.
C17_OneTickOneTimer ==
  /\ Cardinality(TicksInFlight) <= 1
  /\ TimersPending <= 1

\* A tick in flight takes a step after stop() has left the state stopped.
StepsWhileStopped == state.type = "stopped" /\ tick' # tick

\* C18: a tick in flight when stop() is called exits at the return of its
\* suspension point: it dispatches no further event, updates no subscription
\* cursor, emits no progress, writes nothing to the store and schedules no
\* next tick.
C18_StoppedTickDoesNothing ==
  [][StepsWhileStopped =>
       /\ \A t \in Ticks : ~Dispatches(t)
       /\ subscriptions' = subscriptions
       /\ obs'.nProgress = obs.nProgress
       /\ store' = store
       /\ timerRef' = timerRef /\ orphans' = orphans]_vars

\* The logs of subscription a from its fromBlock up to block b, within its
\* toBlock.
LogsUpTo(a, b) ==
  { e \in Logs : /\ e.id = a
                 /\ subscriptions[a].fromBlock <= e.b
                 /\ e.b <= PlanTo(subscriptions[a], b) }

\* C19: no log is skipped: every log of a subscription in
\* [fromBlock, min(fetchedToBlock, toBlock)] has been placed on the queue,
\* and every log of that range at or before its cursor
\* (indexedToBlock, indexedToLogIndex) has been dispatched.
C19_NoLogSkipped ==
  \A a \in DOMAIN subscriptions :
    /\ LogsUpTo(a, subscriptions[a].fetchedToBlock) \subseteq obs.queued
    /\ \A e \in LogsUpTo(a, subscriptions[a].indexedToBlock) :
         AlreadyIndexed(subscriptions[a], e) => e \in obs.dispatched

\* Tick t sets the cursors of its subscriptions after processEvents returned.
SetsCursors(t) == tick[t].pc = "ret" /\ tick'[t].pc \in {"save1", "save2"}

\* C20: setting the cursors of the existing subscriptions after the processor
\* returned moves no subscription's (indexedToBlock, indexedToLogIndex)
\* backwards, and the cursors handed to the store are not below the event
\* handled last for the subscription.
C20_CursorsNeverMoveBack ==
  [][\A t \in Ticks : SetsCursors(t) =>
       /\ \A a \in DOMAIN subscriptions :
            PairLe(subscriptions[a].indexedToBlock, subscriptions[a].indexedToLogIndex,
                   subscriptions'[a].indexedToBlock, subscriptions'[a].indexedToLogIndex)
       /\ \A a \in DOMAIN tick'[t].saving :
            PairLe(obs.handled[a].b, obs.handled[a].li,
                   tick'[t].saving[a].indexedToBlock,
                   tick'[t].saving[a].indexedToLogIndex)]_vars

\* Tick t goes on after processEvents returned hasNewSubscriptions.
ReturnsNew(t) == tick[t].pc = "ret" /\ tick[t].hasNew /\ tick'[t].pc # "ret"

\* Tick t's save after hasNewSubscriptions returns.
SavedNew(t) == tick[t].pc = "save1" /\ tick'[t].pc = "end"

\* Tick t emits progress.
EmitsProgress(t) == Len(tick'[t].progress) > Len(tick[t].progress)

\* C21: when processEvents returns hasNewSubscriptions, the tick writes the
\* returned watermark to its subscriptions, not (targetBlock, 0), emits no
\* progress, persists the subscriptions when a store is configured,
\* schedules the next poll with delay 0 and returns; and no progress is
\* emitted while a subscription added by a handler has not been through the
\* fetch planner.
C21_NewSubscriptionReplansBeforeProgress ==
  [][\A t \in Ticks :
       /\ ReturnsNew(t) =>
            /\ tick'[t].pc = "save1"
            /\ tick'[t].saving = StoredOf(subscriptions')
            /\ ~EmitsProgress(t)
            /\ obs'.nProgress = obs.nProgress
            /\ LET wm == Watermark(subscriptions, tick[t].targetBlock)
               IN \A a \in DOMAIN subscriptions :
                    IF a \in tick[t].ids
                      THEN /\ subscriptions'[a].indexedToBlock = wm.b
                           /\ subscriptions'[a].indexedToLogIndex = wm.li
                      ELSE subscriptions'[a] = subscriptions[a]
       /\ SavedNew(t) =>
            /\ config.store => store' = tick[t].saving
            /\ state.type = "running" => timerRef' /\ tick'[t].delay = 0
            /\ ~EmitsProgress(t)
       /\ EmitsProgress(t) => obs.unplanned = {}]_vars

====
